---- MODULE Spec2Model ----
(***************************************************************************)
(* A model of src/ab_scraper_visible.py: the batch orchestrator            *)
(* (process_batch, with the checkpoint file batch_progress.json), the      *)
(* paginated fetcher of one company (CompanyFetcher) and the page-count    *)
(* discoverer (discover_total_pages).                                      *)
(*                                                                         *)
(* Indices are the code's: companies[i] of the code is companies[i + 1]    *)
(* here, pages are numbered from 1 as in the code.                         *)
(***************************************************************************)
EXTENDS Integers, Sequences, FiniteSets, TLC

VARIABLES
    \* ---- batch orchestrator (process_batch, main_async) ----
    companies,    \* the list read from the CSV
    disk,         \* the file batch_progress.json
    progress,     \* process_batch's dict `progress`
    pc,           \* where the process is: idle (no process), loop, company, sleep
    i,            \* the loop variable of process_batch
    start_index,  \* process_batch's start_index
    resume,       \* args.resume of the running process
    stats,        \* process_batch's dict `stats`
    runs,         \* how many times the program has been started
    \* ---- history of the batch (not read by any action's guard) ----
    base,         \* the progress loaded by the run that opened the session: the
                  \* latest run that was not a --resume after an attempted target
    sessStart,    \* the start index of that run
    upTo,         \* highest index attempted since `base` was loaded, -1 if none
    sessCrashed,  \* a crash happened since `base` was loaded
    loadedLast,   \* last_index of the progress the current run loaded
    runLast,      \* index of the latest target this run attempted, -1 if none
    everTried,    \* indices attempted since the checkpoint file was last absent
    ckCrashed,    \* a crash happened since the checkpoint file was last absent
    persisted,    \* indices whose outcome a save of this session put on disk
    lastEnd,      \* how the latest process ended: none, finished, interrupt, crash
    stale,        \* a run without --resume loaded a non-empty checkpoint since the
                  \* checkpoint file was last absent
    partial,      \* index of the target whose pipeline an interrupt cut, else -1
    \* ---- paginated fetcher of one company (CompanyFetcher) ----
    concurrency,  \* CompanyFetcher.concurrency
    total_pages,  \* the argument of CompanyFetcher.run
    fst,          \* where run is: init, window, done, crashed
    start,        \* run's loop variable `start`
    task,         \* page -> the process_page task of the page
    sem,          \* the value of self.sem
    out_file,     \* the lines of self.out_file
    pages_fetched,
    reviews_written,
    \* ---- history of the fetch: what the page's call of fetch_page_json has
    \* ---- done, kept when it returns an error and forgotten when it returns data
    delays,       \* page -> the backoff sleeps of the call, jitter left out
    reqs,         \* page -> number of requests the call has issued
    allRate,      \* page -> every response to the call so far was a 429 or 503
    torn,         \* the process died inside the append to out_file
    \* ---- page-count discoverer (discover_total_pages) ----
    seo_resp,     \* the answer of the metadata endpoint: [status, doc]
    data_resp,    \* the answer of the data endpoint for page 1: [status, doc]
    discovered,   \* what discover_total_pages did: [called, raised, value]
    \* ---- the process (main) ----
    exit_code,    \* exit status of the latest process: -1 none yet or running,
                  \* 137 killed
    \* ---- one target's pipeline (process_company) ----
    stage,        \* where process_company is: none, boot, boot_sleep, probe,
                  \* discover, fetch, return
    boot_attempt, \* capture_cookies_visible_browser's loop variable `attempt`
    boots,        \* history: per bootstrap attempt of the target, how it ended
                  \* and the sleep that followed it (0: none)
    captured,     \* what capture_cookies_visible_browser returned for the
                  \* target: [cookie_str, error]
    cur_result,   \* process_company's dict `result`
    linesBefore,  \* history: lines out_file held when the target's fetch began
    plan          \* page -> what the site answers for the page (window runs)

batchVars == <<companies, disk, progress, pc, i, start_index, resume, stats, runs>>
histVars == <<base, sessStart, upTo, sessCrashed, loadedLast, runLast, everTried, ckCrashed,
              persisted, lastEnd, stale, partial>>
fetchVars == <<concurrency, total_pages, fst, start, task, sem, out_file,
               pages_fetched, reviews_written, delays, reqs, allRate, torn>>
discVars == <<seo_resp, data_resp, discovered>>
stageVars == <<stage, boot_attempt, boots, captured, cur_result, linesBefore, plan>>
vars == <<batchVars, histVars, fetchVars, discVars, exit_code, stageVars>>

\* ------------------------------------------------------------------ bounds
MaxTargets == 3
MaxRuns == 3
MaxPages == 2
MaxConcurrency == 2
MaxWindows == 2
MaxPipelineTargets == 2

\* ------------------------------------------------------- checkpoint file
EmptyProgress == [processed |-> <<>>, failed |-> <<>>, last_index |-> -1]

NoFile == [exists |-> FALSE, valid |-> FALSE, data |-> EmptyProgress]
TornFile == [exists |-> TRUE, valid |-> FALSE, data |-> EmptyProgress]
FileOf(p) == [exists |-> TRUE, valid |-> TRUE, data |-> p]

\* load_batch_progress: the file's content, or the empty progress when the file
\* is missing or json.loads fails on it.
load_batch_progress(d) == IF d.exists /\ d.valid THEN d.data ELSE EmptyProgress

\* save_batch_progress: write_text of the whole document.
save_batch_progress(p) == FileOf(p)

\* ------------------------------------------------------------- targets
AcmeUrl == "https://www.ambitionbox.com/reviews/acme-reviews"
InitechUrl == "https://www.ambitionbox.com/reviews/initech-reviews/"
TargetSet == {"  ", AcmeUrl, InitechUrl}
\* what read_companies_from_csv builds from a cell without letters or digits
NamelessUrl == "https://www.ambitionbox.com/reviews/-reviews"

\* str.strip() on the entries of TargetSet.
Strip(s) == IF s = "  " THEN "" ELSE s

\* extract_urlname_from_url on the entries of TargetSet: trailing slashes
\* dropped, last path segment, "-reviews" removed.
extract_urlname_from_url(url) ==
    CASE url = AcmeUrl -> "acme"
      [] url = InitechUrl -> "initech"
      [] OTHER -> ""

\* What the remote site does for a target; the same every time it is asked.
\* cookies: the browser captured cookies; seo: the metadata probe answered;
\* company_id: the id in the metadata (0: none); total_pages: what
\* discover_total_pages returns; reviews_written: what CompanyFetcher.run returns.
Site(urlname) ==
    CASE urlname = "acme" ->
           [cookies |-> TRUE, seo |-> TRUE, company_id |-> 42,
            total_pages |-> 3, reviews_written |-> 45]
      [] OTHER ->
           [cookies |-> FALSE, seo |-> FALSE, company_id |-> 0,
            total_pages |-> 1, reviews_written |-> 0]

\* capture_cookies_visible_browser has not returned.
NotCaptured == [cookie_str |-> "None", error |-> "None"]

\* What process_company starts from (timestamp left out).
NoResult(url, index) ==
    [url |-> url, index |-> index, success |-> FALSE,
     urlname |-> "None", reviews |-> 0, pages |-> 0, error |-> "None"]

\* process_company: the result dict (timestamp left out).
process_company(url, index) ==
    LET urlname == extract_urlname_from_url(url)
        site == Site(urlname)
        result == NoResult(url, index)
    IN  IF urlname = ""
        THEN [result EXCEPT !.error = "Could not extract urlname from URL"]
        ELSE IF ~site.cookies
        THEN [result EXCEPT !.urlname = urlname, !.error = "Cookie capture failed"]
        ELSE IF ~site.seo
        THEN [result EXCEPT !.urlname = urlname,
                            !.error = "Failed to fetch SEO metadata"]
        ELSE IF site.company_id = 0
        THEN [result EXCEPT !.urlname = urlname,
                            !.error = "Could not extract company ID"]
        ELSE [result EXCEPT !.urlname = urlname, !.pages = site.total_pages,
                            !.success = TRUE, !.reviews = site.reviews_written]

\* ------------------------------------------------------- process_batch
total == Len(companies)

\* A start index that ignores --resume.
StartIndexFromZero(p, res) == 0

\* start_index = progress["last_index"] + 1 if args.resume else 0
StartIndex(p, res) == IF res THEN p.last_index + 1 ELSE 0

\* A loop body that records the successes only.
RecordResultDropFailed(p, result, idx) ==
    [processed |-> IF result.success THEN Append(p.processed, result)
                   ELSE p.processed,
     failed |-> p.failed,
     last_index |-> idx]

\* A loop body that forgets progress["last_index"] = i.
RecordResultStaleIndex(p, result, idx) ==
    [processed |-> IF result.success THEN Append(p.processed, result)
                   ELSE p.processed,
     failed |-> IF result.success THEN p.failed ELSE Append(p.failed, result),
     last_index |-> p.last_index]

\* The body of the loop for a non-blank companies[idx], up to the save:
\* the result is appended to processed or failed and last_index is set.
RecordResult(p, result, idx) ==
    [processed |-> IF result.success THEN Append(p.processed, result)
                   ELSE p.processed,
     failed |-> IF result.success THEN p.failed ELSE Append(p.failed, result),
     last_index |-> idx]

Blank(idx) == Strip(companies[idx + 1]) = ""

Indices(p) == {p.processed[k].index : k \in 1..Len(p.processed)}
                \cup {p.failed[k].index : k \in 1..Len(p.failed)}

\* main_async, then process_batch up to its loop: --reset unlinks the
\* checkpoint, the progress is loaded and the start index is chosen.
Start(res, reset) ==
    /\ pc = "idle"
    /\ runs < MaxRuns
    /\ companies # <<>>
    /\ LET d == IF reset THEN NoFile ELSE disk
           p == load_batch_progress(d)
           continues == res /\ ~reset /\ upTo # -1
       IN  /\ disk' = d
           /\ progress' = p
           /\ start_index' = StartIndex(p, res)
           /\ i' = StartIndex(p, res)
           /\ stats' = [total |-> total, processed |-> Len(p.processed),
                        failed |-> Len(p.failed), skipped |-> 0]
           /\ loadedLast' = p.last_index
           /\ base' = IF continues THEN base ELSE p
           /\ sessStart' = IF continues THEN sessStart ELSE StartIndex(p, res)
           /\ upTo' = IF continues THEN upTo ELSE -1
           /\ sessCrashed' = IF continues THEN sessCrashed ELSE FALSE
           /\ persisted' = IF continues THEN persisted ELSE {}
           /\ everTried' = IF d.exists THEN everTried ELSE {}
           /\ ckCrashed' = IF d.exists THEN ckCrashed ELSE FALSE
           /\ stale' = IF ~d.exists THEN FALSE
                       ELSE stale \/ (~res /\ p # EmptyProgress)
    /\ resume' = res
    /\ runs' = runs + 1
    /\ runLast' = -1
    /\ partial' = -1
    /\ pc' = "loop"
    /\ exit_code' = -1
    /\ UNCHANGED <<companies, lastEnd>>
    /\ UNCHANGED <<fetchVars, discVars, stageVars>>

\* A loop head that counts a blank entry as a failure too.
LoopHeadBlankFails ==
    /\ pc = "loop"
    /\ \/ /\ i >= total
          /\ pc' = "idle"
          /\ lastEnd' = "finished"
          /\ exit_code' = 0
          /\ UNCHANGED <<i, stats>>
       \/ /\ i < total
          /\ Blank(i)
          /\ stats' = [stats EXCEPT !.skipped = @ + 1, !.failed = @ + 1]
          /\ i' = i + 1
          /\ UNCHANGED <<pc, lastEnd, exit_code>>
       \/ /\ i < total
          /\ ~Blank(i)
          /\ pc' = "company"
          /\ UNCHANGED <<i, stats, lastEnd, exit_code>>
    /\ UNCHANGED <<companies, disk, progress, start_index, resume, runs, base,
                   sessStart, upTo,
                   sessCrashed, loadedLast, runLast, everTried, ckCrashed,
                   persisted, stale, partial>>
    /\ UNCHANGED <<fetchVars, discVars, stageVars>>

\* The head of `for i in range(start_index, total)`: the loop ends (final
\* summary, the process exits), a blank entry is skipped, or process_company
\* is awaited.
LoopHead ==
    /\ pc = "loop"
    /\ \/ /\ i >= total
          /\ pc' = "idle"
          /\ lastEnd' = "finished"
          /\ exit_code' = 0
          /\ UNCHANGED <<i, stats>>
       \/ /\ i < total
          /\ Blank(i)
          /\ stats' = [stats EXCEPT !.skipped = @ + 1]
          /\ i' = i + 1
          /\ UNCHANGED <<pc, lastEnd, exit_code>>
       \/ /\ i < total
          /\ ~Blank(i)
          /\ pc' = "company"
          /\ UNCHANGED <<i, stats, lastEnd, exit_code>>
    /\ UNCHANGED <<companies, disk, progress, start_index, resume, runs, base,
                   sessStart, upTo,
                   sessCrashed, loadedLast, runLast, everTried, ckCrashed,
                   persisted, stale, partial>>
    /\ UNCHANGED <<fetchVars, discVars, stageVars>>

\* The loop body after process_company has returned `result`: the result is
\* recorded, the checkpoint is saved, the counts are refreshed, and the pacing
\* sleep starts unless this was the last index.
AfterCompany(result) ==
    /\ LET p == RecordResult(progress, result, i)
       IN  /\ progress' = p
           /\ disk' = save_batch_progress(p)
           /\ stats' = [stats EXCEPT !.processed = Len(p.processed),
                                     !.failed = Len(p.failed)]
           /\ persisted' = persisted \cup {i}
    /\ IF i < total - 1
       THEN pc' = "sleep" /\ i' = i
       ELSE pc' = "loop" /\ i' = i + 1
    /\ upTo' = IF i > upTo THEN i ELSE upTo
    /\ runLast' = i
    /\ everTried' = everTried \cup {i}
    /\ UNCHANGED <<companies, start_index, resume, runs, base, sessStart, sessCrashed,
                   loadedLast, ckCrashed, lastEnd, stale, partial, exit_code>>

\* process_company returns (the pipeline of the target taken as one step).
CompanyDone ==
    /\ pc = "company"
    /\ AfterCompany(process_company(Strip(companies[i + 1]), i))
    /\ UNCHANGED <<fetchVars, discVars, stageVars>>

\* The pacing sleep ends and the loop goes on.
SleepDone ==
    /\ pc = "sleep"
    /\ pc' = "loop"
    /\ i' = i + 1
    /\ UNCHANGED <<companies, disk, progress, start_index, resume, stats, runs,
                   histVars, exit_code>>
    /\ UNCHANGED <<fetchVars, discVars, stageVars>>

\* Ctrl-C while the loop is suspended in process_company or in the pacing
\* sleep.  Either the task is cancelled (asyncio.CancelledError is not a
\* KeyboardInterrupt, the handler of process_batch does not run) or
\* KeyboardInterrupt is raised inside the coroutine and the handler saves
\* `progress` before re-raising; main() catches it and the process ends.
Interrupt(handler) ==
    /\ pc \in {"company", "sleep"}
    /\ disk' = IF handler THEN save_batch_progress(progress) ELSE disk
    /\ partial' = IF pc = "company" THEN i ELSE -1
    /\ pc' = "idle"
    /\ lastEnd' = "interrupt"
    /\ exit_code' = 0
    /\ UNCHANGED <<companies, progress, i, start_index, resume, stats, runs, base,
                   sessStart, upTo, sessCrashed, loadedLast, runLast, everTried, ckCrashed,
                   persisted, stale>>
    /\ UNCHANGED <<fetchVars, discVars, stageVars>>

\* The process dies (kill, power loss) outside a checkpoint write.
Crash ==
    /\ pc \in {"loop", "company", "sleep"}
    /\ pc' = "idle"
    /\ lastEnd' = "crash"
    /\ exit_code' = 137
    /\ sessCrashed' = TRUE
    /\ ckCrashed' = TRUE
    /\ partial' = -1
    /\ UNCHANGED <<companies, disk, progress, i, start_index, resume, stats, runs,
                   base, sessStart, upTo, loadedLast, runLast, everTried, persisted,
                   stale>>
    /\ UNCHANGED <<fetchVars, discVars, stageVars>>

\* The process dies inside save_batch_progress: write_text has opened the
\* file for writing (truncating it) and not written the whole document.
CrashInSave ==
    /\ pc = "company"
    /\ progress' = RecordResult(progress,
                                process_company(Strip(companies[i + 1]), i), i)
    /\ disk' = TornFile
    /\ pc' = "idle"
    /\ lastEnd' = "crash"
    /\ exit_code' = 137
    /\ sessCrashed' = TRUE
    /\ ckCrashed' = TRUE
    /\ partial' = -1
    /\ upTo' = IF i > upTo THEN i ELSE upTo
    /\ runLast' = i
    /\ everTried' = everTried \cup {i}
    /\ UNCHANGED <<companies, i, start_index, resume, stats, runs, base, sessStart,
                   loadedLast, persisted, stale>>
    /\ UNCHANGED <<fetchVars, discVars, stageVars>>

\* main: the CSV yields no company.  main_async logs "No companies found in
\* CSV" and returns, asyncio.run returns and main ends normally.
MainEmpty(reset) ==
    /\ pc = "idle"
    /\ runs < MaxRuns
    /\ companies = <<>>
    /\ disk' = IF reset THEN NoFile ELSE disk
    /\ runs' = runs + 1
    /\ lastEnd' = "empty"
    /\ exit_code' = 0
    /\ UNCHANGED <<companies, progress, pc, i, start_index, resume, stats, base,
                   sessStart, upTo, sessCrashed, loadedLast, runLast, everTried,
                   ckCrashed, persisted, stale, partial>>
    /\ UNCHANGED <<fetchVars, discVars, stageVars>>

\* main: the CSV cannot be read.  read_companies_from_csv re-raises, main
\* logs "Fatal error" and calls sys.exit(1).  --reset has unlinked the
\* checkpoint before the CSV is opened.
MainUnreadable(reset) ==
    /\ pc = "idle"
    /\ runs < MaxRuns
    /\ disk' = IF reset THEN NoFile ELSE disk
    /\ runs' = runs + 1
    /\ lastEnd' = "fatal"
    /\ partial' = -1
    /\ exit_code' = 1
    /\ base' = IF reset THEN EmptyProgress ELSE base
    /\ sessStart' = IF reset THEN 0 ELSE sessStart
    /\ upTo' = IF reset THEN -1 ELSE upTo
    /\ sessCrashed' = IF reset THEN FALSE ELSE sessCrashed
    /\ persisted' = IF reset THEN {} ELSE persisted
    /\ everTried' = IF reset THEN {} ELSE everTried
    /\ ckCrashed' = IF reset THEN FALSE ELSE ckCrashed
    /\ stale' = IF reset THEN FALSE ELSE stale
    /\ UNCHANGED <<companies, progress, pc, i, start_index, resume, stats,
                   loadedLast, runLast>>
    /\ UNCHANGED <<fetchVars, discVars, stageVars>>

\* ------------------------------------------------------ CompanyFetcher
RETRIES == 5
BACKOFF_BASE == 2
batch_size == 50

RECURSIVE Pow(_, _)
Pow(b, n) == IF n = 0 THEN 1 ELSE b * Pow(b, n - 1)

\* A backoff that grows linearly.
BackoffLinear(attempt) == BACKOFF_BASE * attempt

\* backoff = BACKOFF_BASE ** attempt + random.random(), the jitter left out
Backoff(attempt) == Pow(BACKOFF_BASE, attempt)

\* A semaphore that never blocks.
CanAcquireAlways(value) == TRUE

\* asyncio.Semaphore.acquire returns at once only while the value is positive
CanAcquire(value) == value > 0

\* The bodies of a 200 response: Malformed (the JSON is no mapping, or its
\* reviews are no list), Null (resp.json() gives None: the body is empty or
\* the JSON null) or the list of reviews, each a mapping ("ok") or not
\* ("bad").
ReviewLists == {<<>>, <<"ok">>, <<"ok", "ok">>, <<"ok", "bad">>}
Malformed == <<"malformed">>
Null == <<"null">>
Bodies == {Malformed, Null} \cup ReviewLists
Statuses == {200, 429, 503, 404}

\* ret: what the page's call of fetch_page_json returned: "none" (it has not
\* returned), "data" (its first value is not None) or "nodata" (it is None);
\* err: its second value.
NoTask == [st |-> "none", attempt |-> 0, body |-> <<>>, err |-> "None",
           ret |-> "none"]
NewTask == [st |-> "new", attempt |-> 0, body |-> <<>>, err |-> "None",
            ret |-> "none"]

\* The lines process_page writes into the temporary file of page p: one per
\* review that json.dumps accepts.
RECURSIVE PageLines(_, _, _)
PageLines(p, body, k) ==
    IF k > Len(body) THEN <<>>
    ELSE (IF body[k] = "ok" THEN <<[page |-> p, rec |-> k, whole |-> TRUE]>>
          ELSE <<>>) \o PageLines(p, body, k + 1)

Pages == 1..total_pages

\* A window that takes one page too many.
WindowInclusive(s) == {p \in Pages : s <= p /\ p <= s + batch_size}

\* range(start, end) of the window that begins at s
Window(s) == {p \in Pages : s <= p /\ p < s + batch_size}

\* A gather that does not wait for its tasks.
FinishedAlways(p) == TRUE

\* the page's task has returned (what `await asyncio.gather` waits for)
Finished(p) == task[p].st \in {"ok", "failed"}

\* A count that takes every result of the window.
SucceededAlways(p) == TRUE

\* `if ok:` on the page's result in run
Succeeded(p) == task[p].st = "ok"

BatchIdle ==
    UNCHANGED <<batchVars, histVars, discVars, exit_code, stageVars>>

\* run: the first window is created, or gather returns for the current window:
\* its results are added up and the next window is created, or run returns.
RunStep ==
    /\ fst \in {"init", "window"}
    /\ LET cur == IF fst = "init" THEN {} ELSE Window(start)
           nxt == IF fst = "init" THEN 1 ELSE start + batch_size
           oks == {p \in cur : Succeeded(p)}
           sum[S \in SUBSET cur] ==
               IF S = {} THEN 0
               ELSE LET p == CHOOSE q \in S : TRUE
                    IN  Len(task[p].body) + sum[S \ {p}]
       IN  /\ \A p \in cur : Finished(p)
           /\ pages_fetched' = pages_fetched + Cardinality(oks)
           /\ reviews_written' = reviews_written + sum[oks]
           /\ start' = nxt
           /\ IF nxt <= total_pages
              THEN /\ fst' = "window"
                   /\ task' = [p \in Pages |->
                                 IF p \in Window(nxt) THEN NewTask ELSE task[p]]
              ELSE /\ fst' = "done"
                   /\ task' = task
    /\ UNCHANGED <<concurrency, total_pages, sem, out_file, delays, reqs, allRate,
                   torn>>
    /\ BatchIdle

\* fetch_page_json: `async with self.sem` is entered and the request is issued.
Acquire(p) ==
    /\ fst = "window"
    /\ task[p].st = "new"
    /\ CanAcquire(sem)
    /\ sem' = sem - 1
    /\ task' = [task EXCEPT ![p].st = "request"]
    /\ reqs' = [reqs EXCEPT ![p] = @ + 1]
    /\ UNCHANGED <<concurrency, total_pages, fst, start, out_file, pages_fetched,
                   reviews_written, delays, allRate, torn>>
    /\ BatchIdle

\* The response arrives with status 200 and the given body: the semaphore is
\* released and fetch_page_json returns (await resp.json(), None) (its
\* attempt counter is gone); process_page goes on with the data, or returns
\* (False, 0) when the data is None or malformed.
Respond200(p, body) ==
    /\ fst = "window"
    /\ task[p].st = "request"
    /\ sem' = sem + 1
    /\ task' = [task EXCEPT ![p].st = IF body \in {Malformed, Null} THEN "failed"
                                      ELSE "data",
                            ![p].attempt = 0,
                            ![p].body = IF body \in {Malformed, Null} THEN <<>>
                                        ELSE body,
                            ![p].ret = IF body = Null THEN "nodata" ELSE "data"]
    /\ allRate' = [allRate EXCEPT ![p] = FALSE]
    /\ delays' = [delays EXCEPT ![p] = <<>>]
    /\ reqs' = [reqs EXCEPT ![p] = 0]
    /\ UNCHANGED <<concurrency, total_pages, fst, start, out_file, pages_fetched,
                   reviews_written, torn>>
    /\ BatchIdle

\* A 429/503 backoff that gives its permit back before it sleeps.
RespondRateLimitReleases(p, status) ==
    /\ fst = "window"
    /\ task[p].st = "request"
    /\ status \in {429, 503}
    /\ task' = [task EXCEPT ![p].st = "rate_sleep"]
    /\ delays' = [delays EXCEPT ![p] = Append(@, Backoff(task[p].attempt))]
    /\ sem' = sem + 1
    /\ UNCHANGED <<concurrency, total_pages, fst, start, out_file,
                   pages_fetched, reviews_written, reqs, allRate, torn>>
    /\ BatchIdle

\* The response is a 429 or a 503: the task sleeps the backoff inside
\* `async with self.sem`.
RespondRateLimit(p, status) ==
    /\ fst = "window"
    /\ task[p].st = "request"
    /\ status \in {429, 503}
    /\ task' = [task EXCEPT ![p].st = "rate_sleep"]
    /\ delays' = [delays EXCEPT ![p] = Append(@, Backoff(task[p].attempt))]
    /\ UNCHANGED <<concurrency, total_pages, fst, start, sem, out_file,
                   pages_fetched, reviews_written, reqs, allRate, torn>>
    /\ BatchIdle

\* The backoff after a 429/503 ends: `continue` leaves the semaphore and the
\* loop goes to the next attempt, or ends with max_retries_exceeded.
WakeRateLimit(p) ==
    /\ fst = "window"
    /\ task[p].st = "rate_sleep"
    /\ sem' = sem + 1
    /\ task' = IF task[p].attempt + 1 < RETRIES
               THEN [task EXCEPT ![p].st = "new", ![p].attempt = @ + 1]
               ELSE [task EXCEPT ![p].st = "failed", ![p].attempt = @ + 1,
                                 ![p].err = "max_retries_exceeded",
                                 ![p].ret = "nodata"]
    /\ UNCHANGED <<concurrency, total_pages, fst, start, out_file, pages_fetched,
                   reviews_written, delays, reqs, allRate, torn>>
    /\ BatchIdle

\* The response has another status: (None, "status_<n>") is returned.
RespondOther(p, status) ==
    /\ fst = "window"
    /\ task[p].st = "request"
    /\ status \notin {200, 429, 503}
    /\ sem' = sem + 1
    /\ task' = [task EXCEPT ![p].st = "failed", ![p].err = "status",
                            ![p].ret = "nodata"]
    /\ allRate' = [allRate EXCEPT ![p] = FALSE]
    /\ UNCHANGED <<concurrency, total_pages, fst, start, out_file, pages_fetched,
                   reviews_written, delays, reqs, torn>>
    /\ BatchIdle

\* The request (or resp.json()) raises: the semaphore is left, and the task
\* sleeps the backoff unless this was the last attempt.
RespondException(p) ==
    /\ fst = "window"
    /\ task[p].st = "request"
    /\ sem' = sem + 1
    /\ allRate' = [allRate EXCEPT ![p] = FALSE]
    /\ IF task[p].attempt < RETRIES - 1
       THEN /\ task' = [task EXCEPT ![p].st = "exc_sleep"]
            /\ delays' = [delays EXCEPT ![p] = Append(@, Backoff(task[p].attempt))]
       ELSE /\ task' = [task EXCEPT ![p].st = "failed", ![p].err = "exception",
                                 ![p].ret = "nodata"]
            /\ delays' = delays
    /\ UNCHANGED <<concurrency, total_pages, fst, start, out_file, pages_fetched,
                   reviews_written, reqs, torn>>
    /\ BatchIdle

\* The backoff after an exception ends: next attempt.
WakeException(p) ==
    /\ fst = "window"
    /\ task[p].st = "exc_sleep"
    /\ task' = [task EXCEPT ![p].st = "new", ![p].attempt = @ + 1]
    /\ UNCHANGED <<concurrency, total_pages, fst, start, sem, out_file,
                   pages_fetched, reviews_written, delays, reqs, allRate, torn>>
    /\ BatchIdle

\* process_page writes the page's temporary file.
WriteTmp(p) ==
    /\ fst = "window"
    /\ task[p].st = "data"
    /\ task' = [task EXCEPT ![p].st = "tmp"]
    /\ UNCHANGED <<concurrency, total_pages, fst, start, sem, out_file,
                   pages_fetched, reviews_written, delays, reqs, allRate, torn>>
    /\ BatchIdle

\* process_page appends the content of the temporary file to out_file.
AppendMain(p) ==
    /\ fst = "window"
    /\ task[p].st = "tmp"
    /\ out_file' = out_file \o PageLines(p, task[p].body, 1)
    /\ task' = [task EXCEPT ![p].st = "appended"]
    /\ UNCHANGED <<concurrency, total_pages, fst, start, sem, pages_fetched,
                   reviews_written, delays, reqs, allRate, torn>>
    /\ BatchIdle

\* process_page unlinks the temporary file, sleeps the pacing delay and
\* returns (True, len(reviews)).
UnlinkTmp(p) ==
    /\ fst = "window"
    /\ task[p].st = "appended"
    /\ task' = [task EXCEPT ![p].st = "ok"]
    /\ UNCHANGED <<concurrency, total_pages, fst, start, sem, out_file,
                   pages_fetched, reviews_written, delays, reqs, allRate, torn>>
    /\ BatchIdle

\* The process dies between two steps of a page's write sequence.
FetchCrash ==
    /\ fst = "window"
    /\ \E p \in Pages : task[p].st \in {"data", "tmp", "appended"}
    /\ fst' = "crashed"
    /\ UNCHANGED <<concurrency, total_pages, start, task, sem, out_file,
                   pages_fetched, reviews_written, delays, reqs, allRate, torn>>
    /\ BatchIdle

\* The process dies inside the append of page p: main_f.write(content) and
\* the flush at close are not atomic, so out_file has got the first k lines of
\* the content and, when cut is set, the beginning of the next line.
CrashInAppend(p, cut) ==
    /\ fst = "window"
    /\ task[p].st = "tmp"
    /\ LET lines == PageLines(p, task[p].body, 1)
       IN  \E k \in 0..Len(lines) :
              /\ cut => k < Len(lines)
              /\ out_file' = out_file \o SubSeq(lines, 1, k)
                               \o (IF cut
                                   THEN <<[lines[k + 1] EXCEPT !.whole = FALSE]>>
                                   ELSE <<>>)
    /\ torn' = TRUE
    /\ fst' = "crashed"
    /\ UNCHANGED <<concurrency, total_pages, start, task, sem, pages_fetched,
                   reviews_written, delays, reqs, allRate>>
    /\ BatchIdle

\* process_page as one step, for the runs that look at the windows and at the
\* targets rather than at the requests: the site's answer to page p is of the
\* given kind ("ok" with the given list of reviews, or the reason of the
\* failure), and the page's lines are appended when it is "ok".
ProcessPage(p, kind, body) ==
    /\ fst = "window"
    /\ task[p].st = "new"
    /\ IF kind = "ok"
       THEN /\ task' = [task EXCEPT ![p].st = "ok", ![p].body = body,
                                 ![p].ret = "data"]
            /\ out_file' = out_file \o PageLines(p, body, 1)
       ELSE /\ task' = [task EXCEPT ![p].st = "failed", ![p].err = kind,
                                 ![p].ret = IF kind = "malformed" THEN "data"
                                            ELSE "nodata"]
            /\ out_file' = out_file
    /\ UNCHANGED <<concurrency, total_pages, fst, start, sem, pages_fetched,
                   reviews_written, delays, reqs, allRate, torn>>

\* The ways a page fails: fetch_page_json's retries run out, it meets another
\* status, or the body has not the expected shape.
FailKinds == {"max_retries_exceeded", "status", "malformed"}

\* Page p is the next of its window to return when the pages of a window
\* return in page order (run's state does not depend on the order in which
\* the tasks of a gather finish).
NextInWindow(p) == IF p = start THEN TRUE ELSE Finished(p - 1)

\* The next page of the window returns what the site has planned for it.
PlannedPage ==
    /\ \E p \in Window(start) :
          /\ NextInWindow(p)
          /\ ProcessPage(p, plan[p].kind, plan[p].body)
    /\ UNCHANGED <<batchVars, histVars, discVars, exit_code, stage, boot_attempt,
                   boots, captured, cur_result, linesBefore, plan>>

FetchUnused ==
    /\ concurrency = 1
    /\ total_pages = 1
    /\ fst = "done"
    /\ start = 1
    /\ task = [p \in 1..1 |-> NoTask]
    /\ sem = 1
    /\ out_file = <<>>
    /\ pages_fetched = 0
    /\ reviews_written = 0
    /\ delays = [p \in 1..1 |-> <<>>]
    /\ reqs = [p \in 1..1 |-> 0]
    /\ allRate = [p \in 1..1 |-> TRUE]
    /\ torn = FALSE

\* ------------------------------------------------- discover_total_pages
\* A value of the totalPages field: absent, null, an integer, a string that
\* int() parses (its value in v), another string, a float (v: its integer
\* part).
TotalPagesValues ==
    {[t |-> "absent", v |-> 0], [t |-> "null", v |-> 0], [t |-> "badstr", v |-> 0]}
      \cup {[t |-> "int", v |-> n] : n \in {-1, 0, 1, 2, 7}}
      \cup {[t |-> "str", v |-> n] : n \in {1, 7}}
      \cup {[t |-> "float", v |-> n] : n \in {1, 7}}

NoValue == [t |-> "absent", v |-> 0]

\* A response body.  top: "invalid" (no JSON), "null", "empty" ({}), "list"
\* (a non-empty JSON value that is no mapping), "dict".  data and pagination:
\* "absent" (missing, null or empty), "list" (non-empty, no mapping), "dict".
JsonDocs ==
    {[top |-> k, data |-> "absent", pagination |-> "absent", totalPages |-> NoValue] :
        k \in {"invalid", "null", "empty", "list"}}
      \cup {[top |-> "dict", data |-> k, pagination |-> "absent",
             totalPages |-> NoValue] : k \in {"absent", "list"}}
      \cup {[top |-> "dict", data |-> "dict", pagination |-> k,
             totalPages |-> NoValue] : k \in {"absent", "list"}}
      \cup {[top |-> "dict", data |-> "dict", pagination |-> "dict",
             totalPages |-> v] : v \in TotalPagesValues}

NoDoc == [top |-> "invalid", data |-> "absent", pagination |-> "absent",
          totalPages |-> NoValue]

\* status 0: the request raised (timeout, connection error)
HttpAnswers ==
    {[status |-> 200, doc |-> d] : d \in JsonDocs}
      \cup {[status |-> c, doc |-> NoDoc] : c \in {0, 404, 429}}

Raised == [raised |-> TRUE, value |-> 0]
Value(n) == [raised |-> FALSE, value |-> n]

\* int(x) of Python on a totalPages value
PyInt(x) ==
    CASE x.t \in {"absent", "int", "str", "float"} -> Value(x.v)
      [] OTHER -> Raised

\* probe_seo_meta: None ("null") when the request raises, the status is an
\* error or the body is no JSON; the parsed body otherwise.
probe_seo_meta(answer) ==
    IF answer.status # 200 \/ answer.doc.top = "invalid"
    THEN [NoDoc EXCEPT !.top = "null"]
    ELSE answer.doc

\* int((doc.get("data") or {}).get("pagination") or {}).get("totalPages", 0))
\* for a JSON value doc; raises when a .get is applied to a non-mapping.
PaginationTotal(doc) ==
    IF doc.top \in {"null", "list", "invalid"} THEN Raised
    ELSE IF doc.top = "empty" \/ doc.data = "absent" THEN Value(0)
    ELSE IF doc.data = "list" THEN Raised
    ELSE IF doc.pagination = "absent" THEN Value(0)
    ELSE IF doc.pagination = "list" THEN Raised
    ELSE PyInt(doc.totalPages)

\* The first try block: the total of the metadata when `seo` is truthy.
SeoPhase(answer) ==
    LET seo == probe_seo_meta(answer)
    IN  IF seo.top \in {"null", "empty"} THEN Value(0) ELSE PaginationTotal(seo)

\* The second try block: the total of the data endpoint's page 1 on status 200.
DataPhase(answer) ==
    IF answer.status = 0 THEN Raised
    ELSE IF answer.status # 200 THEN Value(0)
    ELSE PaginationTotal(answer.doc)

\* A discoverer that takes any positive total of the metadata.
discover_total_pages_eager(seo_answer, data_answer) ==
    LET first == SeoPhase(seo_answer)
        second == DataPhase(data_answer)
    IN  IF ~first.raised /\ first.value >= 1 THEN Value(first.value)
        ELSE IF ~second.raised /\ second.value > 1 THEN Value(second.value)
        ELSE Value(1)

\* discover_total_pages: each try block returns its total when it is above 1,
\* an exception in a block is swallowed, and 1 is returned at the end.
discover_total_pages(seo_answer, data_answer) ==
    LET first == SeoPhase(seo_answer)
        second == DataPhase(data_answer)
    IN  IF ~first.raised /\ first.value > 1 THEN Value(first.value)
        ELSE IF ~second.raised /\ second.value > 1 THEN Value(second.value)
        ELSE Value(1)

Discover ==
    /\ ~discovered.called
    /\ LET r == discover_total_pages(seo_resp, data_resp)
       IN  discovered' = [called |-> TRUE, raised |-> r.raised, value |-> r.value]
    /\ UNCHANGED <<seo_resp, data_resp, batchVars, histVars, fetchVars, exit_code,
                   stageVars>>

DiscoverUnused ==
    /\ seo_resp = [status |-> 0, doc |-> NoDoc]
    /\ data_resp = [status |-> 0, doc |-> NoDoc]
    /\ discovered = [called |-> TRUE, raised |-> FALSE, value |-> 1]

StageUnused ==
    /\ stage = "none"
    /\ boot_attempt = 0
    /\ boots = <<>>
    /\ captured = NotCaptured
    /\ cur_result = NoResult("", -1)
    /\ linesBefore = 0
    /\ plan = <<>>

InitBatch ==
    /\ companies \in UNION {[1..n -> TargetSet] : n \in 0..MaxTargets}
    /\ disk = NoFile
    /\ progress = EmptyProgress
    /\ pc = "idle"
    /\ i = 0
    /\ start_index = 0
    /\ resume = FALSE
    /\ stats = [total |-> 0, processed |-> 0, failed |-> 0, skipped |-> 0]
    /\ runs = 0
    /\ base = EmptyProgress
    /\ sessStart = 0
    /\ upTo = -1
    /\ sessCrashed = FALSE
    /\ loadedLast = -1
    /\ runLast = -1
    /\ everTried = {}
    /\ ckCrashed = FALSE
    /\ persisted = {}
    /\ lastEnd = "none"
    /\ stale = FALSE
    /\ partial = -1
    /\ FetchUnused
    /\ DiscoverUnused
    /\ exit_code = -1
    /\ StageUnused

NextBatch ==
    \/ \E res \in BOOLEAN, reset \in BOOLEAN : Start(res, reset)
    \/ LoopHead
    \/ CompanyDone
    \/ SleepDone
    \/ \E handler \in BOOLEAN : Interrupt(handler)
    \/ Crash
    \/ CrashInSave
    \/ \E reset \in BOOLEAN : MainEmpty(reset)
    \/ \E reset \in BOOLEAN : MainUnreadable(reset)

SpecBatch == InitBatch /\ [][NextBatch]_vars

\* CompanyFetcher(...) entered and run(total_pages) called.
InitFetch ==
    /\ concurrency \in 1..MaxConcurrency
    /\ total_pages \in 1..MaxPages
    /\ fst = "init"
    /\ start = 1
    /\ task = [p \in 1..total_pages |-> NoTask]
    /\ sem = concurrency
    /\ out_file = <<>>
    /\ pages_fetched = 0
    /\ reviews_written = 0
    /\ delays = [p \in 1..total_pages |-> <<>>]
    /\ reqs = [p \in 1..total_pages |-> 0]
    /\ allRate = [p \in 1..total_pages |-> TRUE]
    /\ torn = FALSE
    /\ companies = <<AcmeUrl>>
    /\ disk = NoFile
    /\ progress = EmptyProgress
    /\ pc = "company"
    /\ i = 0
    /\ start_index = 0
    /\ resume = FALSE
    /\ stats = [total |-> 1, processed |-> 0, failed |-> 0, skipped |-> 0]
    /\ runs = 1
    /\ base = EmptyProgress
    /\ sessStart = 0
    /\ upTo = -1
    /\ sessCrashed = FALSE
    /\ loadedLast = -1
    /\ runLast = -1
    /\ everTried = {}
    /\ ckCrashed = FALSE
    /\ persisted = {}
    /\ lastEnd = "none"
    /\ stale = FALSE
    /\ partial = -1
    /\ DiscoverUnused
    /\ exit_code = -1
    /\ StageUnused

NextFetch ==
    \/ RunStep
    \/ \E p \in Pages : Acquire(p)
    \/ \E p \in Pages, body \in Bodies : Respond200(p, body)
    \/ \E p \in Pages, status \in Statuses : RespondRateLimit(p, status)
    \/ \E p \in Pages : WakeRateLimit(p)
    \/ \E p \in Pages, status \in Statuses : RespondOther(p, status)
    \/ \E p \in Pages : RespondException(p)
    \/ \E p \in Pages : WakeException(p)
    \/ \E p \in Pages : WriteTmp(p)
    \/ \E p \in Pages : AppendMain(p)
    \/ \E p \in Pages : UnlinkTmp(p)
    \/ FetchCrash
    \/ \E p \in Pages, cut \in BOOLEAN : CrashInAppend(p, cut)

SpecFetch == InitFetch /\ [][NextFetch]_vars

\* The event loop runs a task that can run: a request gets its response (the
\* session has socket timeouts), a sleep ends, a free permit is taken.
SpecFetchFair == SpecFetch /\ WF_vars(NextFetch)

\* discover_total_pages called with any two answers of the site.
InitDiscover ==
    /\ seo_resp \in HttpAnswers
    /\ data_resp \in HttpAnswers
    /\ discovered = [called |-> FALSE, raised |-> FALSE, value |-> 0]
    /\ FetchUnused
    /\ companies = <<AcmeUrl>>
    /\ disk = NoFile
    /\ progress = EmptyProgress
    /\ pc = "company"
    /\ i = 0
    /\ start_index = 0
    /\ resume = FALSE
    /\ stats = [total |-> 1, processed |-> 0, failed |-> 0, skipped |-> 0]
    /\ runs = 1
    /\ base = EmptyProgress
    /\ sessStart = 0
    /\ upTo = -1
    /\ sessCrashed = FALSE
    /\ loadedLast = -1
    /\ runLast = -1
    /\ everTried = {}
    /\ ckCrashed = FALSE
    /\ persisted = {}
    /\ lastEnd = "none"
    /\ stale = FALSE
    /\ partial = -1
    /\ exit_code = -1
    /\ StageUnused

NextDiscover == Discover

SpecDiscover == InitDiscover /\ [][NextDiscover]_vars

\* ------------------------------------------- process_company in steps
max_attempts == 3

\* A result that forgets the number of reviews.
WithSuccessNoCount(r, n) == [r EXCEPT !.success = TRUE]

\* result["success"] = True; result["reviews"] = reviews_written
WithSuccess(r, n) == [r EXCEPT !.success = TRUE, !.reviews = n]

\* except Exception as e: result["error"] = str(e)
WithError(r, e) == [r EXCEPT !.error = e]

\* The fetcher's variables outside `async with CompanyFetcher(...)`: there is
\* no fetcher and no self.out_file.
FetcherGone ==
    /\ total_pages' = 1
    /\ fst' = "done"
    /\ start' = 1
    /\ task' = [p \in 1..1 |-> NoTask]
    /\ sem' = concurrency
    /\ pages_fetched' = 0
    /\ reviews_written' = 0
    /\ delays' = [p \in 1..1 |-> <<>>]
    /\ reqs' = [p \in 1..1 |-> 0]
    /\ allRate' = [p \in 1..1 |-> TRUE]
    /\ out_file' = <<>>
    /\ UNCHANGED <<concurrency, torn>>

\* process_company is entered: the result dict is made and the urlname is
\* extracted; without a urlname the ValueError is caught at once.
CompanyBegin ==
    /\ pc = "company"
    /\ stage = "none"
    /\ LET url == Strip(companies[i + 1])
           urlname == extract_urlname_from_url(url)
       IN  IF urlname = ""
           THEN /\ cur_result' = WithError(NoResult(url, i),
                                           "Could not extract urlname from URL")
                /\ stage' = "return"
           ELSE /\ cur_result' = [NoResult(url, i) EXCEPT !.urlname = urlname]
                /\ stage' = "boot"
    /\ boot_attempt' = 0
    /\ boots' = <<>>
    /\ captured' = NotCaptured
    /\ UNCHANGED <<linesBefore, plan, exit_code>>
    /\ UNCHANGED <<batchVars, histVars, fetchVars, discVars>>

\* A bootstrap that gives up at the first pass without cookies.
capture_cookies_no_retry(attempt, how) ==
    CASE how = "cookies" -> [cookie_str |-> "name=value", error |-> ""]
      [] how = "nocookies" ->
           [cookie_str |-> "None", error |-> "All cookie capture attempts failed"]
      [] OTHER ->
           IF attempt < max_attempts - 1 THEN NotCaptured
           ELSE [cookie_str |-> "None", error |-> "Attempt failed"]

\* What one pass of capture_cookies_visible_browser's loop returns, NotCaptured
\* when the loop goes on: cookies are returned as the joined string with an
\* empty error; a pass without cookies falls out of the loop after the last
\* attempt; a pass that raised returns its message on the last attempt.
capture_cookies_visible_browser(attempt, how) ==
    CASE how = "cookies" -> [cookie_str |-> "name=value", error |-> ""]
      [] how = "nocookies" ->
           IF attempt + 1 < max_attempts THEN NotCaptured
           ELSE [cookie_str |-> "None",
                 error |-> "All cookie capture attempts failed"]
      [] OTHER ->
           IF attempt < max_attempts - 1 THEN NotCaptured
           ELSE [cookie_str |-> "None", error |-> "Attempt failed"]

\* One pass of capture_cookies_visible_browser's loop: the browser yields
\* cookies (the string is returned), yields none (the loop goes on at once), or
\* something raises (the backoff sleep follows, or on the last attempt
\* (None, error) is returned).  Without cookies process_company raises
\* "Cookie capture failed".
BootAttempt(how) ==
    /\ pc = "company"
    /\ stage = "boot"
    /\ LET ret == capture_cookies_visible_browser(boot_attempt, how)
           sleeps == how = "exception" /\ ret = NotCaptured
       IN  /\ captured' = ret
           /\ boots' = Append(boots,
                              [how |-> how,
                               slept |-> IF sleeps THEN Pow(2, boot_attempt) ELSE 0])
           /\ boot_attempt' = IF how = "nocookies" /\ ret = NotCaptured
                               THEN boot_attempt + 1
                               ELSE boot_attempt
           /\ stage' = IF sleeps THEN "boot_sleep"
                        ELSE IF ret = NotCaptured THEN "boot"
                        ELSE IF ret.cookie_str = "None" THEN "return"
                        ELSE "probe"
           /\ cur_result' = IF ret # NotCaptured /\ ret.cookie_str = "None"
                             THEN WithError(cur_result, "Cookie capture failed")
                             ELSE cur_result
    /\ UNCHANGED <<linesBefore, plan, exit_code>>
    /\ UNCHANGED <<batchVars, histVars, fetchVars, discVars>>

\* The backoff sleep of the bootstrap ends: next attempt.
BootWake ==
    /\ pc = "company"
    /\ stage = "boot_sleep"
    /\ stage' = "boot"
    /\ boot_attempt' = boot_attempt + 1
    /\ UNCHANGED <<boots, captured, cur_result, linesBefore, plan, exit_code>>
    /\ UNCHANGED <<batchVars, histVars, fetchVars, discVars>>

\* extract_company_id on the metadata document; cid is the value at
\* company.id (0: missing, null, zero or not a number).  None is 0.
extract_company_id(doc, cid) ==
    IF doc.top # "dict" \/ doc.data = "list" THEN 0 ELSE cid

\* The answers of the two endpoints in the runs over several targets.
PipelineAnswers ==
    {[status |-> 404, doc |-> NoDoc],
     [status |-> 200, doc |-> [NoDoc EXCEPT !.top = "empty"]]}
      \cup {[status |-> 200,
              doc |-> [top |-> "dict", data |-> "dict", pagination |-> "dict",
                       totalPages |-> [t |-> "int", v |-> n]]] : n \in 1..MaxPages}

\* process_company probes the metadata and extracts the company id; a falsy
\* probe result or a missing id raises ValueError.
ProbeMeta(answer, cid) ==
    /\ pc = "company"
    /\ stage = "probe"
    /\ LET seo_data == probe_seo_meta(answer)
       IN  IF seo_data.top \in {"null", "empty"}
           THEN /\ cur_result' = WithError(cur_result, "Failed to fetch SEO metadata")
                /\ stage' = "return"
           ELSE IF extract_company_id(seo_data, cid) = 0
           THEN /\ cur_result' = WithError(cur_result, "Could not extract company ID")
                /\ stage' = "return"
           ELSE /\ cur_result' = cur_result
                /\ stage' = "discover"
    /\ boot_attempt' = 0
    /\ boots' = <<>>
    /\ captured' = NotCaptured
    /\ UNCHANGED <<linesBefore, plan, exit_code>>
    /\ UNCHANGED <<batchVars, histVars, fetchVars, discVars>>

\* A line that an earlier run, or an earlier entry of the list with the same
\* URL, has left in the target's output file.
OldLine == [page |-> 0, rec |-> 0, whole |-> TRUE]

\* process_company discovers the page count, stores it in the result and
\* enters `async with CompanyFetcher(...)`; the output file of the target is
\* absent or has content (it is opened for appending).
DiscoverPages(seo_answer, data_answer) ==
    /\ pc = "company"
    /\ stage = "discover"
    /\ out_file' \in {<<>>, <<OldLine>>}
    /\ LET n == discover_total_pages(seo_answer, data_answer).value
       IN  /\ cur_result' = [cur_result EXCEPT !.pages = n]
           /\ total_pages' = n
           /\ task' = [p \in 1..n |-> NoTask]
           /\ delays' = [p \in 1..n |-> <<>>]
           /\ reqs' = [p \in 1..n |-> 0]
           /\ allRate' = [p \in 1..n |-> TRUE]
    /\ fst' = "init"
    /\ start' = 1
    /\ sem' = concurrency
    /\ pages_fetched' = 0
    /\ reviews_written' = 0
    /\ linesBefore' = Len(out_file')
    /\ stage' = "fetch"
    /\ UNCHANGED <<concurrency, torn>>
    /\ UNCHANGED <<boot_attempt, boots, captured, plan, exit_code>>
    /\ UNCHANGED <<batchVars, histVars, discVars>>

\* Something raises inside the `async with` before the first window (the
\* mkdir of run, the session): process_company catches it.
FetchRaises ==
    /\ pc = "company"
    /\ stage = "fetch"
    /\ fst = "init"
    /\ cur_result' = WithError(cur_result, "fetch")
    /\ stage' = "return"
    /\ FetcherGone
    /\ UNCHANGED <<boot_attempt, boots, captured, linesBefore, plan, exit_code>>
    /\ UNCHANGED <<batchVars, histVars, discVars>>

\* The next page of the current window returns, with any answer of the site.
AnyPage ==
    /\ pc = "company"
    /\ stage = "fetch"
    /\ \E p \in Window(start) :
          /\ NextInWindow(p)
          /\ \/ \E body \in ReviewLists \ {<<>>} : ProcessPage(p, "ok", body)
             \/ \E kind \in FailKinds : ProcessPage(p, kind, <<>>)
    /\ UNCHANGED <<batchVars, histVars, discVars, exit_code, stageVars>>

\* process_company returns its result (after the fetch, or from the except
\* clause) and the loop body of process_batch goes on with it.
CompanyReturn ==
    /\ pc = "company"
    /\ \/ stage = "return"
       \/ stage = "fetch" /\ fst = "done"
    /\ AfterCompany(IF stage = "return" THEN cur_result
                    ELSE WithSuccess(cur_result, reviews_written))
    /\ stage' = "none"
    /\ cur_result' = NoResult("", -1)
    /\ boot_attempt' = 0
    /\ boots' = <<>>
    /\ captured' = NotCaptured
    /\ linesBefore' = 0
    /\ FetcherGone
    /\ UNCHANGED <<plan, discVars>>

PipelineTargets == {"  ", AcmeUrl, NamelessUrl}

\* process_batch at the head of its loop in a run that found no checkpoint.
InitPipeline ==
    /\ companies \in UNION {[1..n -> PipelineTargets] : n \in 1..MaxPipelineTargets}
    /\ disk = NoFile
    /\ progress = EmptyProgress
    /\ pc = "loop"
    /\ i = 0
    /\ start_index = 0
    /\ resume = FALSE
    /\ stats = [total |-> Len(companies), processed |-> 0, failed |-> 0,
                skipped |-> 0]
    /\ runs = 1
    /\ base = EmptyProgress
    /\ sessStart = 0
    /\ upTo = -1
    /\ sessCrashed = FALSE
    /\ loadedLast = -1
    /\ runLast = -1
    /\ everTried = {}
    /\ ckCrashed = FALSE
    /\ persisted = {}
    /\ lastEnd = "none"
    /\ stale = FALSE
    /\ partial = -1
    /\ exit_code = -1
    /\ FetchUnused
    /\ DiscoverUnused
    /\ StageUnused

NextPipeline ==
    \/ LoopHead
    \/ SleepDone
    \/ CompanyBegin
    \/ \E how \in {"cookies", "nocookies", "exception"} : BootAttempt(how)
    \/ BootWake
    \/ \E answer \in PipelineAnswers, cid \in {0, 42} : ProbeMeta(answer, cid)
    \/ \E seo_answer \in PipelineAnswers, data_answer \in PipelineAnswers :
          DiscoverPages(seo_answer, data_answer)
    \/ FetchRaises
    \/ RunStep
    \/ AnyPage
    \/ CompanyReturn

SpecPipeline == InitPipeline /\ [][NextPipeline]_vars

\* The orchestrator while it awaits process_company for the only target.
BatchAtCompany ==
    /\ companies = <<AcmeUrl>>
    /\ disk = NoFile
    /\ progress = EmptyProgress
    /\ pc = "company"
    /\ i = 0
    /\ start_index = 0
    /\ resume = FALSE
    /\ stats = [total |-> 1, processed |-> 0, failed |-> 0, skipped |-> 0]
    /\ runs = 1
    /\ base = EmptyProgress
    /\ sessStart = 0
    /\ upTo = -1
    /\ sessCrashed = FALSE
    /\ loadedLast = -1
    /\ runLast = -1
    /\ everTried = {}
    /\ ckCrashed = FALSE
    /\ persisted = {}
    /\ lastEnd = "none"
    /\ stale = FALSE
    /\ partial = -1
    /\ exit_code = -1

\* The page counts of the window runs: around the borders of the windows.
WindowTotals ==
    {1, batch_size - 1}
      \cup {k * batch_size : k \in 1..MaxWindows}
      \cup {k * batch_size + 1 : k \in 1..MaxWindows}

\* The pages that fail in a plan for n pages: none, the first, the last, the
\* last of each window, the first of each later window, all.
FailSets(n) ==
    {{}, {1}, {n}, 1..n,
     {p \in 1..n : p % batch_size = 0},
     {p \in 2..n : p % batch_size = 1}}

Plans(n) ==
    {[p \in 1..n |->
        IF p \in F THEN [kind |-> k, body |-> <<>>]
        ELSE [kind |-> "ok",
              body |-> IF p % 2 = 1 THEN <<"ok", "ok">> ELSE <<"ok">>]] :
        F \in FailSets(n), k \in FailKinds}

\* CompanyFetcher.run called with a page count around the window borders.
InitWindows ==
    /\ total_pages \in WindowTotals
    /\ plan \in Plans(total_pages)
    /\ concurrency = 1
    /\ fst = "init"
    /\ start = 1
    /\ task = [p \in 1..total_pages |-> NoTask]
    /\ sem = 1
    /\ out_file = <<>>
    /\ pages_fetched = 0
    /\ reviews_written = 0
    /\ delays = [p \in 1..total_pages |-> <<>>]
    /\ reqs = [p \in 1..total_pages |-> 0]
    /\ allRate = [p \in 1..total_pages |-> TRUE]
    /\ torn = FALSE
    /\ BatchAtCompany
    /\ DiscoverUnused
    /\ stage = "fetch"
    /\ boot_attempt = 0
    /\ boots = <<>>
    /\ captured = NotCaptured
    /\ cur_result = NoResult(AcmeUrl, 0)
    /\ linesBefore = 0

NextWindows ==
    \/ RunStep
    \/ PlannedPage

SpecWindows == InitWindows /\ [][NextWindows]_vars

\* ------------------------------------------------- the batch's properties
\* How often index j has an outcome in progress p.
Count(p, j) ==
    Cardinality({k \in 1..Len(p.processed) : p.processed[k].index = j})
      + Cardinality({k \in 1..Len(p.failed) : p.failed[k].index = j})

\* The progress of a run that starts from p and goes through indices j..k
\* without being stopped.
RECURSIVE RunThrough(_, _, _)
RunThrough(p, j, k) ==
    IF j > k THEN p
    ELSE RunThrough(IF Blank(j) THEN p
                    ELSE RecordResult(p, process_company(Strip(companies[j + 1]), j), j),
                    j + 1, k)

\* The first index at or after s that holds a target, total if there is none.
NextTarget(s) ==
    IF \E j \in s..(total - 1) : ~Blank(j)
    THEN CHOOSE j \in s..(total - 1) : ~Blank(j) /\ \A k \in s..(j - 1) : Blank(k)
    ELSE total

\* C2: a run with --resume starts at the loaded last_index + 1 and never runs
\* the pipeline for an index at or below the loaded last_index; a run without
\* --resume starts at 0.
C2_ResumeStartsAfterLastIndex ==
    pc # "idle" =>
        /\ start_index = (IF resume THEN loadedLast + 1 ELSE 0)
        /\ i >= start_index
        /\ resume /\ pc = "company" => i > loadedLast
        /\ resume /\ runLast # -1 => runLast > loadedLast

C2_Witness == resume /\ pc = "company" /\ loadedLast >= 0 /\ runLast # -1

\* C3: a session is a run followed by the --resume runs that continue it after
\* it attempted a target.  With interruptions and resumed runs in between (and
\* no crash), the checkpoint on disk is the one the session's first run, not
\* stopped, leaves after the highest index attempted so far.
C3_ResumeIdempotent ==
    (~sessCrashed /\ disk.valid) => disk.data = RunThrough(base, sessStart, upTo)

C3_Witness ==
    /\ resume /\ ~sessCrashed /\ lastEnd = "interrupt"
    /\ sessStart <= loadedLast /\ runLast > loadedLast
    /\ pc = "sleep"
    /\ disk.valid

\* C4: after a target's checkpoint write the checkpoint on disk holds exactly
\* one outcome for every target attempted so far and none for any other.
C4_ExactlyTheAttempted ==
    (disk.exists /\ disk.valid /\ ~ckCrashed /\ runLast # -1) =>
        \A j \in 0..(total - 1) :
            Count(disk.data, j) = (IF j \in everTried THEN 1 ELSE 0)

\* C4, for runs that never load a non-empty checkpoint without --resume.
C4_ExactlyTheAttemptedUnlessStale == stale \/ C4_ExactlyTheAttempted

\* C5: last_index is the index of the latest target the run attempted and is
\* never below the last_index the run loaded.
C5_LastIndexMonotone ==
    pc # "idle" =>
        /\ progress.last_index >= loadedLast
        /\ runLast # -1 => progress.last_index = runLast

\* C5, for runs that never load a non-empty checkpoint without --resume.
C5_LastIndexMonotoneUnlessStale == stale \/ C5_LastIndexMonotone

\* C6: after an interrupt during a target's pipeline the checkpoint on disk
\* has no outcome for that target, its last_index is not that target's index,
\* and a run with --resume attempts that target first.
C6_InterruptLeavesPartialOut ==
    (pc = "idle" /\ lastEnd = "interrupt" /\ partial # -1) =>
        LET p == load_batch_progress(disk)
        IN  /\ partial \notin Indices(p)
            /\ p.last_index # partial
            /\ NextTarget(StartIndex(p, TRUE)) = partial

\* C6, for runs that never load a non-empty checkpoint without --resume.
C6_InterruptLeavesPartialOutUnlessStale == stale \/ C6_InterruptLeavesPartialOut

\* C7: after a crash, a run with --resume never runs the pipeline for a
\* target whose outcome a checkpoint write had put on disk before the crash.
C7_NoRedoAfterCrash ==
    (resume /\ sessCrashed /\ pc = "company") => i \notin persisted

\* C16: a run that ends on a configuration error (no company in the CSV, or
\* a CSV that cannot be read) ends with a non-zero exit status.
C16_FatalConfigurationExitsNonZero ==
    (pc = "idle" /\ lastEnd \in {"empty", "fatal"}) => exit_code = 1

\* C16, for a CSV that cannot be read.
C16_UnreadableInputExitsNonZero ==
    (pc = "idle" /\ lastEnd = "fatal") => exit_code = 1

\* C17: over runs that share a checkpoint and end normally or on an interrupt
\* (fresh, --resume, and neither --resume nor --reset), a target that has got
\* its outcome is never put in flight again, and no target has two outcomes
\* (in the same list or one in each).
C17_TerminalIsFinal ==
    ckCrashed \/
        /\ pc = "company" => i \notin everTried
        /\ pc # "idle" => \A j \in 0..(total - 1) : Count(progress, j) <= 1
        /\ \A j \in 0..(total - 1) : Count(load_batch_progress(disk), j) <= 1

\* C17, for runs that never load a non-empty checkpoint without --resume.
C17_TerminalIsFinalUnlessStale == stale \/ C17_TerminalIsFinal

\* C24: the step of a running process at a blank entry adds one to the
\* skipped count and goes to the next index; it leaves the other counts, the
\* progress with its last_index and the checkpoint file alone and enters no
\* pipeline stage; no outcome is ever recorded for a blank entry.
C24_BlankEntryIsSkipped ==
    /\ [](/\ \A j \in Indices(progress) : j < total => ~Blank(j)
          /\ pc \in {"company", "sleep"} => ~Blank(i))
    /\ [][(pc = "loop" /\ i < total /\ Blank(i) /\ pc' # "idle") =>
            /\ stats' = [stats EXCEPT !.skipped = stats.skipped + 1]
            /\ progress' = progress
            /\ disk' = disk
            /\ pc' = "loop"
            /\ i' = i + 1
            /\ everTried' = everTried
            /\ UNCHANGED <<fetchVars, discVars, stageVars>>]_vars

C24_Witness ==
    /\ pc = "loop"
    /\ i = 2
    /\ Blank(1)
    /\ stats.skipped = 1
    /\ stats.processed + stats.failed = 1
    /\ progress.last_index = 0
    /\ disk = FileOf(progress)

\* The run ended with the final summary.
Summarised == pc = "idle" /\ lastEnd = "finished"

\* C27: in the final summary of a run, processed + failed + skipped is the
\* length of the list.
C27_SummaryAddsUp ==
    Summarised => stats.processed + stats.failed + stats.skipped = stats.total

\* C27, for runs that never load a non-empty checkpoint without --resume and
\* follow no crash.
C27_SummaryAddsUpUnlessStale == stale \/ ckCrashed \/ C27_SummaryAddsUp

\* C27, with the blank entries before the start index of the run left out of
\* the sum: they are in none of the three counts.
C27_SummaryMissesBlanksBeforeStart ==
    (Summarised /\ ~stale /\ ~ckCrashed) =>
        /\ stats.total = total
        /\ stats.processed + stats.failed + stats.skipped
              = total - Cardinality({j \in 0..(start_index - 1) : Blank(j)})

\* A target lies at an index after j.
TargetAfter(j) == \E k \in (j + 1)..(total - 1) : ~Blank(k)

\* C22: the run sleeps after an attempted target exactly when another target
\* follows it in the list: the sleep is never skipped before a later target,
\* and never taken after the last target of the list.
C22_PacingSleepBetweenTargets ==
    /\ [](pc = "sleep" => TargetAfter(i))
    /\ [][(pc = "company" /\ pc' = "loop") => ~TargetAfter(i)]_vars

\* C22, for the sleep between two targets only.
C22_SleepBeforeNextTarget ==
    [][(pc = "company" /\ pc' = "loop") => ~TargetAfter(i)]_vars

\* ------------------------------------------ the pipeline's properties
\* The records of pages 1..n as the site returned them.
RECURSIVE SumRecords(_)
SumRecords(n) == IF n = 0 THEN 0 ELSE Len(task[n].body) + SumRecords(n - 1)

\* Every page of the target succeeded and every record is a JSON object.
AllPagesSucceeded ==
    \A p \in Pages :
        /\ task[p].st = "ok"
        /\ \A k \in 1..Len(task[p].body) : task[p].body[k] = "ok"

FetchReturned == pc = "company" /\ stage = "fetch" /\ fst = "done"

C12_FailureDoesNotStopBatch ==
    /\ \A k \in 1..Len(progress.failed) :
          ~progress.failed[k].success /\ progress.failed[k].error # "None"
    /\ stage = "return" => ~cur_result.success /\ cur_result.error # "None"
    /\ pc = "company" =>
          \A j \in 0..(i - 1) : ~Blank(j) => Count(load_batch_progress(disk), j) = 1
    /\ pc = "idle" =>
          /\ lastEnd = "finished"
          /\ \A j \in 0..(total - 1) :
                ~Blank(j) => Count(load_batch_progress(disk), j) = 1

C12_Witness ==
    /\ pc = "idle"
    /\ Len(disk.data.failed) = 1
    /\ disk.data.failed[1].index = 0
    /\ disk.data.failed[1].error = "fetch"
    /\ Len(disk.data.processed) = 1
    /\ disk.data.processed[1].index = 1

\* The session of the target is invalid: the bootstrap got no cookies, or
\* every page request got a status other than 200, 429 and 503.
SessionInvalid ==
    \/ stage = "return" /\ cur_result.error = "Cookie capture failed"
    \/ /\ stage = "fetch" /\ fst = "done"
       /\ \A p \in Pages : task[p].st = "failed" /\ task[p].err = "status"

\* C14: a target whose session is invalid gets an outcome with success =
\* false in failed, and none in processed.
C14_SessionInvalidIsFailure ==
    [][(pc = "company" /\ SessionInvalid /\ stage' = "none") =>
          /\ progress'.processed = progress.processed
          /\ Len(progress'.failed) = Len(progress.failed) + 1
          /\ ~progress'.failed[Len(progress'.failed)].success]_vars

\* C14, for a bootstrap without cookies.
C14_NoCookiesIsFailure ==
    [][(pc = "company" /\ stage = "return" /\ stage' = "none"
          /\ cur_result.error = "Cookie capture failed") =>
          /\ progress'.processed = progress.processed
          /\ Len(progress'.failed) = Len(progress.failed) + 1
          /\ ~progress'.failed[Len(progress'.failed)].success]_vars

\* C15: no target fails because the metadata probe returned None.
C15_ProbeNoneIsNotFatal ==
    /\ cur_result.error # "Failed to fetch SEO metadata"
    /\ \A k \in 1..Len(progress.failed) :
          progress.failed[k].error # "Failed to fetch SEO metadata"

\* C18: one target's pipeline runs at a time and in list order: it begins
\* when every earlier entry that is not blank has its outcome in the
\* checkpoint on disk, and no page task is alive outside the fetch of the
\* target in flight.
C18_TargetsInSequence ==
    /\ stage # "none" => pc = "company"
    /\ (stage # "fetch" \/ fst = "done") =>
          \A p \in DOMAIN task : task[p].st \in {"none", "ok", "failed"}
    /\ \A j \in Indices(progress) : j <= progress.last_index
    /\ pc = "company" =>
          /\ \A j \in Indices(progress) : j < i
          /\ \A j \in start_index..(i - 1) :
                ~Blank(j) => disk.valid /\ Count(disk.data, j) = 1

C18_Witness ==
    /\ pc = "company"
    /\ i = 1
    /\ stage = "fetch"
    /\ \E p \in Pages : task[p].st = "new"
    /\ Count(disk.data, 0) = 1

\* C20: in the bootstrap, an attempt that is followed by another attempt is
\* followed by a sleep of 2^attempt seconds first.
C20_BackoffBetweenAttempts ==
    \A k \in 1..Len(boots) :
        (k < Len(boots) \/ stage \in {"boot", "boot_sleep"}) =>
            boots[k].slept = Pow(2, k - 1)

\* C20, for attempts that raised; and a bootstrap gives up only after
\* max_attempts attempts.
C20_BackoffAfterException ==
    /\ \A k \in 1..Len(boots) :
          (boots[k].how = "exception"
             /\ (k < Len(boots) \/ stage \in {"boot", "boot_sleep"})) =>
              boots[k].slept = Pow(2, k - 1)
    /\ (stage = "return" /\ cur_result.error = "Cookie capture failed") =>
          Len(boots) = max_attempts

\* Every record of the pages that succeeded is a JSON object.
AllRecordsObjects ==
    \A p \in Pages :
        task[p].st = "ok" => \A k \in 1..Len(task[p].body) : task[p].body[k] = "ok"

\* C25: when the fetch of a target has returned, the count it reports is the
\* number of lines it has appended to the output file, and that count is
\* stored as reviews in the target's outcome.
C25_ReviewsAreLinesWritten ==
    /\ [](FetchReturned => reviews_written = Len(out_file) - linesBefore)
    /\ [][(FetchReturned /\ stage' = "none") =>
            /\ Len(progress'.processed) = Len(progress.processed) + 1
            /\ progress'.processed[Len(progress'.processed)].reviews
                  = Len(out_file) - linesBefore]_vars

\* C25, for pages whose records are all JSON objects.
C25_ReviewsAreLinesWrittenForObjects ==
    /\ [](FetchReturned /\ AllRecordsObjects =>
            reviews_written = Len(out_file) - linesBefore)
    /\ [][(FetchReturned /\ AllRecordsObjects /\ stage' = "none") =>
            /\ Len(progress'.processed) = Len(progress.processed) + 1
            /\ progress'.processed[Len(progress'.processed)].reviews
                  = Len(out_file) - linesBefore]_vars

\* C21: the bootstrap makes at most max_attempts attempts and ends by
\* returning: the cookie string at the first attempt that captured cookies,
\* and otherwise, only after max_attempts attempts (an attempt without cookies
\* is followed by the next one), no cookie string and an error that is not
\* empty.
C21_BootstrapReturns ==
    /\ Len(boots) <= max_attempts
    /\ boot_attempt < max_attempts
    /\ stage \in {"boot", "boot_sleep"} =>
          /\ captured = NotCaptured
          /\ Len(boots) < max_attempts
          /\ Len(boots) = (IF stage = "boot" THEN boot_attempt ELSE boot_attempt + 1)
          /\ \A k \in 1..Len(boots) : boots[k].how # "cookies"
    /\ captured # NotCaptured =>
          /\ stage \in {"probe", "return"}
          /\ captured.cookie_str # "None" <=>
                \E k \in 1..Len(boots) : boots[k].how = "cookies"
          /\ captured.cookie_str # "None" =>
                /\ stage = "probe"
                /\ captured.error = ""
                /\ \A k \in 1..Len(boots) :
                      boots[k].how = "cookies" <=> k = Len(boots)
          /\ captured.cookie_str = "None" =>
                /\ stage = "return"
                /\ Len(boots) = max_attempts
                /\ captured.error \notin {"", "None"}

C21_Witness ==
    /\ stage = "return"
    /\ captured.cookie_str = "None"
    /\ captured.error = "All cookie capture attempts failed"
    /\ Len(boots) = max_attempts
    /\ boots[1].how = "nocookies"
    /\ boots[2].how = "exception"

\* ----------------------------------------------- the fetcher's properties
InFlight == {p \in Pages : task[p].st = "request"}

\* C1: the number of page requests in flight never exceeds the concurrency
\* limit.
C1_InFlightAtMostConcurrency == Cardinality(InFlight) <= concurrency

C1_Witness ==
    /\ Cardinality(InFlight) = concurrency
    /\ \E p \in Pages : task[p].st = "new"

\* C8: after a crash during a fetch, out_file holds for every page either
\* none or all of the page's lines, and no line that is cut.
C8_PageWriteAtomic ==
    fst = "crashed" =>
        /\ \A k \in 1..Len(out_file) : out_file[k].whole
        /\ \A p \in Pages :
              LET IsMine(l) == l.page = p
                  mine == SelectSeq(out_file, IsMine)
              IN  mine = <<>> \/ mine = PageLines(p, task[p].body, 1)

\* C8, for crashes that fall between two steps of process_page.
C8_PageWriteAtomicBetweenSteps == torn \/ C8_PageWriteAtomic

\* C9: while every response of a page was a 429 or 503, the n-th backoff is at
\* least 2^(n-1) seconds; a page issues at most RETRIES requests, and a page
\* whose responses were all 429 or 503 fails with max_retries_exceeded after
\* exactly RETRIES requests; a fetch that fails names its error.
C9_BackoffAndRetryCount ==
    \A p \in Pages :
        /\ allRate[p] => \A n \in 1..Len(delays[p]) : delays[p][n] >= Pow(2, n - 1)
        /\ reqs[p] <= RETRIES
        /\ task[p].st \in {"new", "request", "rate_sleep", "exc_sleep"}
              => task[p].attempt < RETRIES
        /\ (task[p].st = "failed" /\ reqs[p] > 0) => task[p].err # "None"
        /\ (task[p].st = "failed" /\ reqs[p] > 0 /\ allRate[p]) =>
              /\ reqs[p] = RETRIES
              /\ Len(delays[p]) = RETRIES
              /\ task[p].err = "max_retries_exceeded"

C9_Witness ==
    \E p \in Pages :
        /\ task[p].st = "failed"
        /\ allRate[p]
        /\ reqs[p] = RETRIES
        /\ delays[p][RETRIES - 1] = 8

\* fetch_page_json's loop of page p is running.
InRetryLoop(p) == task[p].st \in {"new", "request", "rate_sleep", "exc_sleep"}

\* The loop of every page stays within RETRIES requests and has returned
\* exactly when it is left.
RetryLoopBounded ==
    \A p \in Pages :
        /\ reqs[p] <= RETRIES
        /\ InRetryLoop(p) => task[p].attempt < RETRIES /\ task[p].ret = "none"
        /\ task[p].st \notin {"none", "new", "request", "rate_sleep", "exc_sleep"}
              => task[p].ret # "none"

\* One step of a page's loop: a 429/503 is followed by the backoff sleep and
\* then by the next attempt (max_retries_exceeded after the last one), an
\* exception by the backoff sleep and the next attempt unless it was the last
\* attempt, and a response that returns data ends the loop in the same step.
RetryLoopStep ==
    \A p \in Pages :
        LET t == task[p]
            u == task'[p]
        IN  /\ (t.st = "request" /\ u.st = "rate_sleep") =>
                  /\ delays'[p] = Append(delays[p], Backoff(t.attempt))
                  /\ sem' = sem
            /\ (t.st = "rate_sleep" /\ u.st # "rate_sleep") =>
                  /\ sem' = sem + 1
                  /\ IF t.attempt < RETRIES - 1
                     THEN u.st = "new" /\ u.attempt = t.attempt + 1
                     ELSE /\ u.st = "failed"
                          /\ u.ret = "nodata"
                          /\ u.err = "max_retries_exceeded"
            /\ (t.st = "request" /\ u.st = "exc_sleep") =>
                  /\ t.attempt < RETRIES - 1
                  /\ delays'[p] = Append(delays[p], Backoff(t.attempt))
                  /\ sem' = sem + 1
            /\ (t.st = "exc_sleep" /\ u.st # "exc_sleep") =>
                  u.st = "new" /\ u.attempt = t.attempt + 1
            /\ (t.st = "request" /\ u.err = "exception") =>
                  /\ t.attempt = RETRIES - 1
                  /\ u.st = "failed" /\ u.ret = "nodata"
            /\ (t.st = "request" /\ u.err = "status") =>
                  u.st = "failed" /\ u.ret = "nodata"
            /\ (t.st = "request" /\ u.ret = "data") =>
                  /\ u.st \in {"data", "failed"}
                  /\ sem' = sem + 1
            /\ (t.ret = "none" /\ u.ret # "none") =>
                  t.st \in {"request", "rate_sleep"}

\* C23: a page's loop issues at most RETRIES requests, goes on after a
\* 429/503 and after an exception as long as attempts are left, ends at once
\* on a 200 and on another status, and returns either data without an error
\* or no data with an error.
C23_RetryLoopEndsExplicitly ==
    /\ [](RetryLoopBounded
          /\ \A p \in Pages :
                /\ task[p].ret = "data" => task[p].err = "None"
                /\ task[p].ret = "nodata" => task[p].err # "None")
    /\ [][RetryLoopStep]_vars

\* C23, with the error of a call that returned no data left open.
C23_RetryLoopEnds ==
    /\ [](RetryLoopBounded
          /\ \A p \in Pages : task[p].ret = "data" => task[p].err = "None")
    /\ [][RetryLoopStep]_vars

\* The pages that sleep the backoff of a 429/503.
RateSleeping == {p \in Pages : task[p].st = "rate_sleep"}

\* C26: the permits taken are those of the pages with a request in flight
\* and of the pages in a 429/503 backoff (a page in an exception backoff holds
\* none), so these are never more than the concurrency limit; and while as
\* many pages as the limit are in a 429/503 backoff no page issues a request.
C26_RateLimitSleepHoldsPermit ==
    /\ [](/\ sem = concurrency - Cardinality(InFlight) - Cardinality(RateSleeping)
          /\ sem >= 0
          /\ Cardinality(InFlight) + Cardinality(RateSleeping) <= concurrency)
    /\ [][/\ Cardinality(RateSleeping) = concurrency =>
               \A p \in Pages : task'[p].st = "request" => task[p].st = "request"
          /\ \A p \in Pages :
               /\ (task[p].st = "request" /\ task'[p].st = "rate_sleep") => sem' = sem
               /\ (task[p].st = "request" /\ task'[p].st = "exc_sleep") =>
                     sem' = sem + 1
               /\ (task[p].st = "exc_sleep" /\ task'[p].st # "exc_sleep") =>
                     sem' = sem]_vars

C26_Witness ==
    /\ Cardinality(RateSleeping) = concurrency
    /\ sem = 0
    /\ \E p \in Pages : task[p].st = "new" /\ task[p].attempt > 0

\* C23, termination: under every sequence of responses every page's loop
\* ends and run returns (or the process dies).
C23_RetryLoopTerminates ==
    <>(fst \in {"done", "crashed"} /\ \A p \in Pages : ~InRetryLoop(p) \/ fst = "crashed")

\* The lines of page p in out_file.
LinesOf(p) ==
    LET IsMine(l) == l.page = p
    IN  SelectSeq(out_file, IsMine)

\* C13: a page that failed has no line in out_file and stays failed (it is not
\* dispatched again); when run returns, every page the site answered well is
\* fetched and appended whatever the other pages of its window and of earlier
\* windows did, and pages_fetched is the number of pages that succeeded.
C13_FailedPageIsIsolated ==
    /\ [](/\ \A k \in 1..Len(out_file) : task[out_file[k].page].st # "failed"
          /\ fst = "done" =>
                /\ \A p \in Pages :
                      /\ plan[p].kind = "ok" =>
                            /\ task[p].st = "ok"
                            /\ LinesOf(p) = PageLines(p, plan[p].body, 1)
                      /\ plan[p].kind # "ok" => task[p].st = "failed"
                /\ pages_fetched = Cardinality({q \in Pages : plan[q].kind = "ok"}))
    /\ [][\A p \in Pages : task[p].st = "failed" => task'[p] = task[p]]_vars

C13_Witness ==
    /\ fst = "done"
    /\ total_pages = batch_size + 1
    /\ task[1].st = "failed"
    /\ task[2].st = "ok"
    /\ task[batch_size + 1].st = "ok"
    /\ pages_fetched = batch_size

\* C19: run dispatches every page exactly once, in consecutive windows of at
\* most batch_size pages, and dispatches a window only when every page before
\* it has finished.
C19_WindowsPartition ==
    /\ [](fst = "done" => \A p \in Pages : Finished(p))
    /\ [][LET D == {p \in Pages : task[p].st # "new" /\ task'[p].st = "new"}
          IN  /\ \A p \in D : task[p].st = "none"
              /\ \A p \in Pages : task[p].st # "none" => task'[p].st # "none"
              /\ D # {} =>
                    /\ Cardinality(D) <= batch_size
                    /\ D = {p \in Pages : start' <= p /\ p < start' + Cardinality(D)}
                    /\ \A p \in Pages : p < start' <=> Finished(p)
                    /\ Cardinality(D) < batch_size =>
                          start' + Cardinality(D) > total_pages
         ]_vars

C19_Witness ==
    /\ fst = "window"
    /\ start = batch_size + 1
    /\ total_pages > 2 * batch_size
    /\ \A p \in Pages : p <= batch_size => Finished(p)
    /\ \A p \in Window(start) : task[p].st = "new"

\* ---------------------------------------------- the discoverer's property
\* The totalPages of a body when the body has the expected shape and the
\* field holds an integer; 0 when the body has not got the field.
IntegerTotal(doc) ==
    IF doc.top = "dict" /\ doc.data = "dict" /\ doc.pagination = "dict"
         /\ doc.totalPages.t = "int"
    THEN doc.totalPages.v
    ELSE 0

\* The field holds something that is neither an integer nor unusable.
OddTotal(answer) ==
    /\ answer.status = 200
    /\ answer.doc.totalPages.t \in {"str", "float"}

\* C10: discover_total_pages returns the metadata's totalPages when that is
\* above 1, else the data endpoint's when its status is 200 and the value is
\* above 1, else 1; the result is an integer >= 1 and nothing is raised.
C10_DiscoveryFallback ==
    discovered.called =>
        LET meta == IF seo_resp.status = 200 THEN IntegerTotal(seo_resp.doc) ELSE 0
            data == IF data_resp.status = 200 THEN IntegerTotal(data_resp.doc) ELSE 0
        IN  /\ ~discovered.raised
            /\ discovered.value \in Nat
            /\ discovered.value >= 1
            /\ (~OddTotal(seo_resp) /\ ~OddTotal(data_resp)) =>
                  discovered.value = (IF meta > 1 THEN meta
                                      ELSE IF data > 1 THEN data
                                      ELSE 1)

C10_Witness ==
    /\ discovered.called
    /\ seo_resp.status = 200 /\ IntegerTotal(seo_resp.doc) = 1
    /\ data_resp.status = 200 /\ IntegerTotal(data_resp.doc) = 7
    /\ discovered.value = 7

====
